---- MODULE Spec2Model ----
(***************************************************************************)
(* Position-aware string extraction of vscode-unescaper                    *)
(* (src/src/services/string-extractor.ts): the quote style table, the      *)
(* escape test, the single-line and multi-line scans and the two           *)
(* extraction entry points, over a text document given as its lines and    *)
(* its line terminator.                                                    *)
(*                                                                         *)
(* A text is a sequence of one-character strings; offsets and line and     *)
(* character numbers are 0-based as in the source.                         *)
(***************************************************************************)
EXTENDS Integers, Sequences, FiniteSets, TLC

VARIABLES lines, eol, position, call, ret,
          escaped,
          previewCounter, contentMap, invocation, openDocuments

vars ==
    <<lines, eol, position, call, ret, escaped,
      previewCounter, contentMap, invocation, openDocuments>>

\* The state of the preview commands.
previewVars == <<previewCounter, contentMap, invocation, openDocuments>>

\* ------------------------------------------------------------ characters
DQ == "\""
SQ == "'"
\* The backtick (written by name: the character itself opens a quotation in
\* the module syntax).
BT == "backtick"
BS == "\\"
CR == "\r"
NL == "\n"

LF == <<NL>>
CRLF == <<CR, NL>>

\* ------------------------------------------------------------- bounds
\* A document of the general family is a concatenation of at most MaxFrags
\* fragments of Fragments.
MaxFrags == 3
\* A document of the line family has at most MaxLines lines of LineSet.
MaxLines == 4
\* A document of the escape family has at most MaxBackslashes backslashes
\* before a closing delimiter.
MaxBackslashes == 3
\* A text given to the escape codec is a concatenation of at most
\* MaxCodecFrags fragments of CodecFragments.
MaxCodecFrags == 4
\* At most MaxInvocations invocations of the preview commands run, one
\* interleaved with the other.
MaxInvocations == 2

\* ------------------------------------------------------ string helpers
Min(a, b) == IF a < b THEN a ELSE b
Max(a, b) == IF a > b THEN a ELSE b

\* String.prototype.substring(from, to), 0-based, clamped to the text.
Substring(text, from, to) ==
    LET a == Min(Max(from, 0), Len(text))
        b == Min(Max(to, 0), Len(text))
    IN  SubSeq(text, Min(a, b) + 1, Max(a, b))

\* text.substring(i, i + pat.length) === pat: the substring, clamped to the
\* text, has the length of pat only when pat lies wholly inside the text.
MatchAt(text, i, pat) ==
    \/ Len(pat) = 0
    \/ /\ i >= 0 /\ i + Len(pat) <= Len(text)
       /\ \A j \in 1..Len(pat) : text[i + j] = pat[j]

RECURSIVE Repeat(_, _)
Repeat(c, n) == IF n <= 0 THEN <<>> ELSE <<c>> \o Repeat(c, n - 1)

RECURSIVE CountChar(_, _)
CountChar(text, c) ==
    IF text = <<>> THEN 0
    ELSE (IF Head(text) = c THEN 1 ELSE 0) + CountChar(Tail(text), c)

\* ------------------------------------------------------- QUOTE_STYLES
\* prefix <<>> stands for an absent prefix.
QuoteStyle(open, close, supportsEscape, multiLine, prefix, prefixDisablesEscape) ==
    [open |-> open, close |-> close, supportsEscape |-> supportsEscape,
     multiLine |-> multiLine, prefix |-> prefix,
     prefixDisablesEscape |-> prefixDisablesEscape]

\* The table with the standard double quote moved before the triple quotes.
QUOTE_STYLES_StandardFirst == <<
    QuoteStyle(<<DQ>>, <<DQ>>, FALSE, FALSE, <<"r">>, TRUE),
    QuoteStyle(<<SQ>>, <<SQ>>, FALSE, FALSE, <<"r">>, TRUE),
    QuoteStyle(<<DQ, DQ, DQ>>, <<DQ, DQ, DQ>>, FALSE, TRUE, <<"r">>, TRUE),
    QuoteStyle(<<SQ, SQ, SQ>>, <<SQ, SQ, SQ>>, FALSE, TRUE, <<"r">>, TRUE),
    QuoteStyle(<<DQ>>, <<DQ>>, FALSE, TRUE, <<"@">>, TRUE),
    QuoteStyle(<<DQ>>, <<DQ>>, FALSE, TRUE, <<"r", "#">>, TRUE),
    QuoteStyle(<<DQ>>, <<DQ>>, FALSE, TRUE, <<"r", "#", "#">>, TRUE),
    QuoteStyle(<<DQ>>, <<DQ>>, FALSE, TRUE, <<"r", "#", "#", "#">>, TRUE),
    QuoteStyle(<<DQ>>, <<DQ>>, TRUE, FALSE, <<"b">>, FALSE),
    QuoteStyle(<<SQ>>, <<SQ>>, TRUE, FALSE, <<"b">>, FALSE),
    QuoteStyle(<<DQ>>, <<DQ>>, TRUE, FALSE, <<"f">>, FALSE),
    QuoteStyle(<<SQ>>, <<SQ>>, TRUE, FALSE, <<"f">>, FALSE),
    QuoteStyle(<<DQ>>, <<DQ>>, TRUE, FALSE, <<>>, FALSE),
    QuoteStyle(<<DQ, DQ, DQ>>, <<DQ, DQ, DQ>>, TRUE, TRUE, <<>>, FALSE),
    QuoteStyle(<<SQ, SQ, SQ>>, <<SQ, SQ, SQ>>, TRUE, TRUE, <<>>, FALSE),
    QuoteStyle(<<BT>>, <<BT>>, TRUE, TRUE, <<>>, FALSE),
    QuoteStyle(<<SQ>>, <<SQ>>, TRUE, FALSE, <<>>, FALSE) >>

QUOTE_STYLES == <<
    QuoteStyle(<<DQ>>, <<DQ>>, FALSE, FALSE, <<"r">>, TRUE),
    QuoteStyle(<<SQ>>, <<SQ>>, FALSE, FALSE, <<"r">>, TRUE),
    QuoteStyle(<<DQ, DQ, DQ>>, <<DQ, DQ, DQ>>, FALSE, TRUE, <<"r">>, TRUE),
    QuoteStyle(<<SQ, SQ, SQ>>, <<SQ, SQ, SQ>>, FALSE, TRUE, <<"r">>, TRUE),
    QuoteStyle(<<DQ>>, <<DQ>>, FALSE, TRUE, <<"@">>, TRUE),
    QuoteStyle(<<DQ>>, <<DQ>>, FALSE, TRUE, <<"r", "#">>, TRUE),
    QuoteStyle(<<DQ>>, <<DQ>>, FALSE, TRUE, <<"r", "#", "#">>, TRUE),
    QuoteStyle(<<DQ>>, <<DQ>>, FALSE, TRUE, <<"r", "#", "#", "#">>, TRUE),
    QuoteStyle(<<DQ>>, <<DQ>>, TRUE, FALSE, <<"b">>, FALSE),
    QuoteStyle(<<SQ>>, <<SQ>>, TRUE, FALSE, <<"b">>, FALSE),
    QuoteStyle(<<DQ>>, <<DQ>>, TRUE, FALSE, <<"f">>, FALSE),
    QuoteStyle(<<SQ>>, <<SQ>>, TRUE, FALSE, <<"f">>, FALSE),
    QuoteStyle(<<DQ, DQ, DQ>>, <<DQ, DQ, DQ>>, TRUE, TRUE, <<>>, FALSE),
    QuoteStyle(<<SQ, SQ, SQ>>, <<SQ, SQ, SQ>>, TRUE, TRUE, <<>>, FALSE),
    QuoteStyle(<<BT>>, <<BT>>, TRUE, TRUE, <<>>, FALSE),
    QuoteStyle(<<DQ>>, <<DQ>>, TRUE, FALSE, <<>>, FALSE),
    QuoteStyle(<<SQ>>, <<SQ>>, TRUE, FALSE, <<>>, FALSE) >>

StyleIndexes == 1..Len(QUOTE_STYLES)

\* ------------------------------------------------------------ isEscaped
\* The number of consecutive backslashes that end at 0-based index i.
RECURSIVE BackslashRun(_, _)
BackslashRun(text, i) ==
    IF i >= 0 /\ i < Len(text) /\ text[i + 1] = BS
    THEN 1 + BackslashRun(text, i - 1)
    ELSE 0

\* isEscaped that looks at the one character before the position only.
isEscaped_OneBackslash(text, pos) == pos >= 1 /\ text[pos] = BS

isEscaped(text, pos) == BackslashRun(text, pos - 1) % 2 = 1

\* ------------------------------------------------------------- the scan
\* The loop state of findSingleLineString / findMultiLineString: "outer" is
\* the test of the outer while, "inner" the test of the closing-quote while,
\* "found" the return of a span, "end" the return of null.
ScanStart ==
    [mode |-> "outer", i |-> 0, start |-> 0, contentStart |-> 0,
     contentEnd |-> 0, end |-> 0]

\* The cursor test that skips its upper bound.
CursorInSpan_NoUpperBound(cursor, start, endChar) == cursor >= start

\* The cursor test that is off by one at both ends.
CursorInSpan_OffByOne(cursor, start, endChar) ==
    cursor > start /\ cursor <= endChar

\* cursorChar >= startChar && cursorChar < endChar
CursorInSpan(cursor, start, endChar) == cursor >= start /\ cursor < endChar

\* The scan that, after a token without the cursor, resumes just after the
\* opening delimiter of the token instead of at its end.
ScanStep_Rewind(text, cursor, quoteStyle, close, s) ==
    IF s.mode = "outer" THEN
        IF ~(s.i < Len(text)) THEN [s EXCEPT !.mode = "end"]
        ELSE IF quoteStyle.prefix # <<>> /\ ~MatchAt(text, s.i, quoteStyle.prefix)
        THEN [s EXCEPT !.i = s.i + 1]
        ELSE LET prefixLength == Len(quoteStyle.prefix)
                 j == s.i + prefixLength
             IN  IF MatchAt(text, j, quoteStyle.open)
                 THEN [mode |-> "inner",
                       i |-> j + Len(quoteStyle.open),
                       start |-> IF prefixLength > 0 THEN s.i ELSE j,
                       contentStart |-> j + Len(quoteStyle.open),
                       contentEnd |-> 0, end |-> 0]
                 ELSE [s EXCEPT !.i = j + 1]
    ELSE IF s.mode = "inner" THEN
        IF ~(s.i < Len(text)) THEN [s EXCEPT !.mode = "outer"]
        ELSE IF MatchAt(text, s.i, close)
        THEN IF quoteStyle.supportsEscape /\ isEscaped(text, s.i)
             THEN [s EXCEPT !.i = s.i + 1]
             ELSE LET endChar == s.i + Len(close)
                  IN  IF CursorInSpan(cursor, s.start, endChar)
                      THEN [s EXCEPT !.mode = "found", !.contentEnd = s.i,
                                     !.end = endChar]
                      ELSE [s EXCEPT !.mode = "outer", !.i = s.contentStart]
        ELSE [s EXCEPT !.i = s.i + 1]
    ELSE s

\* One iteration of the outer loop (up to the entry of the inner loop) or of
\* the inner loop. close is the closing delimiter searched for.
ScanStep(text, cursor, quoteStyle, close, s) ==
    IF s.mode = "outer" THEN
        IF ~(s.i < Len(text)) THEN [s EXCEPT !.mode = "end"]
        ELSE IF quoteStyle.prefix # <<>> /\ ~MatchAt(text, s.i, quoteStyle.prefix)
        THEN [s EXCEPT !.i = s.i + 1]
        ELSE LET prefixLength == Len(quoteStyle.prefix)
                 j == s.i + prefixLength
             IN  IF MatchAt(text, j, quoteStyle.open)
                 THEN [mode |-> "inner",
                       i |-> j + Len(quoteStyle.open),
                       start |-> IF prefixLength > 0 THEN s.i ELSE j,
                       contentStart |-> j + Len(quoteStyle.open),
                       contentEnd |-> 0, end |-> 0]
                 ELSE [s EXCEPT !.i = j + 1]
    ELSE IF s.mode = "inner" THEN
        IF ~(s.i < Len(text)) THEN [s EXCEPT !.mode = "outer"]
        ELSE IF MatchAt(text, s.i, close)
        THEN IF quoteStyle.supportsEscape /\ isEscaped(text, s.i)
             THEN [s EXCEPT !.i = s.i + 1]
             ELSE LET endChar == s.i + Len(close)
                  IN  IF CursorInSpan(cursor, s.start, endChar)
                      THEN [s EXCEPT !.mode = "found", !.contentEnd = s.i,
                                     !.end = endChar]
                      ELSE [s EXCEPT !.mode = "outer", !.i = endChar]
        ELSE [s EXCEPT !.i = s.i + 1]
    ELSE s

RECURSIVE ScanFrom(_, _, _, _, _)
ScanFrom(text, cursor, quoteStyle, close, s) ==
    IF s.mode \in {"found", "end"} THEN s
    ELSE ScanFrom(text, cursor, quoteStyle, close,
                  ScanStep(text, cursor, quoteStyle, close, s))

\* ------------------------------------------------------------- results
Null == [isNull |-> TRUE]

Pos(line, character) == [line |-> line, character |-> character]

ExtractResult(content, start, end, quoteStyle) ==
    [isNull |-> FALSE, content |-> content, start |-> start, end |-> end,
     quoteStyle |-> quoteStyle]

\* string | null
Str(content) == [isNull |-> FALSE, content |-> content]

\* ----------------------------------------------------------- TextDocument
\* A document is its lines (no line holds a terminator) and the terminator
\* its full text joins them with.
RECURSIVE JoinFrom(_, _, _)
JoinFrom(ls, sep, k) ==
    IF k > Len(ls) THEN <<>>
    ELSE IF k = Len(ls) THEN ls[k]
    ELSE ls[k] \o sep \o JoinFrom(ls, sep, k + 1)

getText(document) == JoinFrom(document.lines, document.eol, 1)

lineAt(document, line) == document.lines[line + 1]

\* The offset in getText of the first character of a line.
RECURSIVE lineOffset(_, _)
lineOffset(document, line) ==
    IF line = 0 THEN 0
    ELSE lineOffset(document, line - 1)
         + Len(lineAt(document, line - 1)) + Len(document.eol)

RECURSIVE positionAtFrom(_, _, _)
positionAtFrom(document, offset, line) ==
    IF line < Len(document.lines) - 1 /\ lineOffset(document, line + 1) <= offset
    THEN positionAtFrom(document, offset, line + 1)
    ELSE Pos(line, offset - lineOffset(document, line))

positionAt(document, offset) == positionAtFrom(document, offset, 0)

\* The content that runs from the opening quote to the end of the closing one.
Content_WithQuotes(text, s) == Substring(text, s.contentStart - 1, s.end)

\* text.substring(contentStart, contentEnd)
Content(text, s) == Substring(text, s.contentStart, s.contentEnd)

\* ------------------------------------------------- findSingleLineString
findSingleLineString(line, lineNumber, cursorChar, quoteStyle) ==
    LET s == ScanFrom(line, cursorChar, quoteStyle, quoteStyle.close, ScanStart)
    IN  IF s.mode = "found"
        THEN ExtractResult(Content(line, s),
                           Pos(lineNumber, s.start), Pos(lineNumber, s.end),
                           quoteStyle)
        ELSE Null

\* -------------------------------------------------- findMultiLineString
\* cursorOffset: the lengths of the lines before the cursor line, plus one each.
RECURSIVE CursorOffsetFrom(_, _, _)
CursorOffsetFrom(document, cursorLine, i) ==
    IF i < cursorLine
    THEN Len(lineAt(document, i)) + 1 + CursorOffsetFrom(document, cursorLine, i + 1)
    ELSE 0

CursorOffset(document, cursorLine, cursorChar) ==
    CursorOffsetFrom(document, cursorLine, 0) + cursorChar

\* The closing delimiter taken from the static close field.
closeToMatch_Static(quoteStyle) == quoteStyle.close

closeToMatch(quoteStyle) ==
    IF MatchAt(quoteStyle.prefix, 0, <<"r", "#">>)
    THEN <<DQ>> \o Repeat("#", CountChar(quoteStyle.prefix, "#"))
    ELSE quoteStyle.close

findMultiLineString(document, cursorLine, cursorChar, quoteStyle) ==
    LET fullText == getText(document)
        cursorOffset == CursorOffset(document, cursorLine, cursorChar)
        s == ScanFrom(fullText, cursorOffset, quoteStyle,
                      closeToMatch(quoteStyle), ScanStart)
    IN  IF s.mode = "found"
        THEN ExtractResult(Content(fullText, s),
                           positionAt(document, s.start),
                           positionAt(document, s.end), quoteStyle)
        ELSE Null

\* ------------------------------------------------ the extraction entry points
\* The body of the for loop over QUOTE_STYLES, for one style.
FindWithStyle(document, pos, quoteStyle) ==
    IF quoteStyle.multiLine
    THEN findMultiLineString(document, pos.line, pos.character, quoteStyle)
    ELSE findSingleLineString(lineAt(document, pos.line), pos.line,
                              pos.character, quoteStyle)

RECURSIVE ExtractFrom(_, _, _)
ExtractFrom(document, pos, k) ==
    IF k > Len(QUOTE_STYLES) THEN Null
    ELSE LET result == FindWithStyle(document, pos, QUOTE_STYLES[k])
         IN  IF ~result.isNull THEN result
             ELSE ExtractFrom(document, pos, k + 1)

extractStringWithDetails(document, pos) == ExtractFrom(document, pos, 1)

\* The loop that keeps the last style with a result instead of the first.
RECURSIVE ExtractContentFrom_LastWins(_, _, _)
ExtractContentFrom_LastWins(document, pos, k) ==
    IF k > Len(QUOTE_STYLES) THEN Null
    ELSE LET result == FindWithStyle(document, pos, QUOTE_STYLES[k])
             later == ExtractContentFrom_LastWins(document, pos, k + 1)
         IN  IF ~later.isNull THEN later
             ELSE IF ~result.isNull THEN Str(result.content)
             ELSE Null

\* The loop that ends with an empty string instead of null.
RECURSIVE ExtractContentFrom_EmptyForNull(_, _, _)
ExtractContentFrom_EmptyForNull(document, pos, k) ==
    IF k > Len(QUOTE_STYLES) THEN Str(<<>>)
    ELSE LET result == FindWithStyle(document, pos, QUOTE_STYLES[k])
         IN  IF ~result.isNull THEN Str(result.content)
             ELSE ExtractContentFrom_EmptyForNull(document, pos, k + 1)

\* The loop that takes an empty content for no result.
RECURSIVE ExtractContentFrom_EmptyIsAbsent(_, _, _)
ExtractContentFrom_EmptyIsAbsent(document, pos, k) ==
    IF k > Len(QUOTE_STYLES) THEN Null
    ELSE LET result == FindWithStyle(document, pos, QUOTE_STYLES[k])
         IN  IF ~result.isNull /\ result.content # <<>> THEN Str(result.content)
             ELSE ExtractContentFrom_EmptyIsAbsent(document, pos, k + 1)

RECURSIVE ExtractContentFrom(_, _, _)
ExtractContentFrom(document, pos, k) ==
    IF k > Len(QUOTE_STYLES) THEN Null
    ELSE LET result == FindWithStyle(document, pos, QUOTE_STYLES[k])
         IN  IF ~result.isNull THEN Str(result.content)
             ELSE ExtractContentFrom(document, pos, k + 1)

extractStringAtPosition(document, pos) == ExtractContentFrom(document, pos, 1)

\* ---------------------------------------------------------- escape codec
\* In the codec a text is a sequence of UTF-16 code units. CharCode gives the
\* code units of the characters the token grammar and the inputs are made of.
CharCode ==
    [c \in { "\\", "\"", "'", "0", "1", "4", "9", "A", "F", "G", "a", "b",
             "f", "g", "n", "r", "t", "u", "v", "x",
             " ", "<", ">", "[", "]", "{", "}" } |->
        CASE c = "\\" -> 92 [] c = "\"" -> 34 [] c = "'" -> 39
          [] c = " " -> 32 [] c = "<" -> 60 [] c = ">" -> 62
          [] c = "[" -> 91 [] c = "]" -> 93 [] c = "{" -> 123 [] c = "}" -> 125
          [] c = "0" -> 48 [] c = "1" -> 49 [] c = "4" -> 52 [] c = "9" -> 57
          [] c = "A" -> 65 [] c = "F" -> 70 [] c = "G" -> 71
          [] c = "a" -> 97 [] c = "b" -> 98 [] c = "f" -> 102 [] c = "g" -> 103
          [] c = "n" -> 110 [] c = "r" -> 114 [] c = "t" -> 116
          [] c = "u" -> 117 [] c = "v" -> 118 [] c = "x" -> 120]

\* The code units of a sequence of characters.
Codes(chars) == [n \in 1..Len(chars) |-> CharCode[chars[n]]]

\* [\da-fA-F]
IsHexDigit(c) ==
    \/ CharCode["0"] <= c /\ c <= CharCode["9"]
    \/ CharCode["a"] <= c /\ c <= CharCode["f"]
    \/ CharCode["A"] <= c /\ c <= CharCode["F"]

\* The value of a hexadecimal digit, as Number.parseInt(_, 16) reads it.
HexDigitValue(c) ==
    IF CharCode["0"] <= c /\ c <= CharCode["9"] THEN c - CharCode["0"]
    ELSE IF CharCode["a"] <= c /\ c <= CharCode["f"] THEN c - CharCode["a"] + 10
    ELSE c - CharCode["A"] + 10

\* Number.parseInt(digits, 16)
RECURSIVE parseIntHex(_)
parseIntHex(digits) ==
    IF digits = <<>> THEN 0
    ELSE 16 * parseIntHex(SubSeq(digits, 1, Len(digits) - 1))
         + HexDigitValue(digits[Len(digits)])

\* String.fromCharCode(codePoint): the code unit, modulo 2^16.
fromCharCode(codePoint) == codePoint % 65536

\* A regular expression of the form \\(u[hex]{m}|x[hex]{n}|[class]): the
\* numbers of hexadecimal digits after u and after x and the class of the
\* simple escapes.
EscapeRegex(unicodeDigits, hexDigits, simple) ==
    [unicodeDigits |-> unicodeDigits, hexDigits |-> hexDigits,
     simple |-> { CharCode[c] : c \in simple }]

\* text[i .. i + n - 1] (0-based) are n hexadecimal digits.
HexDigitsAt(text, i, n) ==
    i + n <= Len(text) /\ \A j \in 1..n : IsHexDigit(text[i + j])

\* The length of the match of the regular expression at 0-based index i, 0
\* when it does not match there. The alternatives are tried in order.
MatchLength(regex, text, i) ==
    IF ~(i + 1 < Len(text) /\ text[i + 1] = CharCode["\\"]) THEN 0
    ELSE IF text[i + 2] = CharCode["u"]
            /\ HexDigitsAt(text, i + 2, regex.unicodeDigits)
    THEN 2 + regex.unicodeDigits
    ELSE IF text[i + 2] = CharCode["x"] /\ HexDigitsAt(text, i + 2, regex.hexDigits)
    THEN 2 + regex.hexDigits
    ELSE IF text[i + 2] \in regex.simple THEN 2
    ELSE 0

\* The matches of the regular expression with the g flag, from index i on:
\* leftmost first, each search resuming at the end of the previous match.
\* A match is its index and its captured group.
RECURSIVE MatchesFrom(_, _, _)
MatchesFrom(regex, text, i) ==
    IF i >= Len(text) THEN <<>>
    ELSE LET m == MatchLength(regex, text, i)
         IN  IF m = 0 THEN MatchesFrom(regex, text, i + 1)
             ELSE <<[index |-> i, captured |-> SubSeq(text, i + 2, i + m)]>>
                    \o MatchesFrom(regex, text, i + m)

\* ------------------------------------------------------------- unescape
escapeMap ==
    (CharCode["n"] :> 10) @@ (CharCode["t"] :> 9) @@ (CharCode["r"] :> 13)
        @@ (CharCode["b"] :> 8) @@ (CharCode["f"] :> 12) @@ (CharCode["v"] :> 11)
        @@ (CharCode["\\"] :> 92) @@ (CharCode["\""] :> 34)
        @@ (CharCode["'"] :> 39) @@ (CharCode["0"] :> 0)

\* /\\(u[\da-fA-F]{4}|x[\da-fA-F]{2}|[nrtbfv\\'"0])/g of unescape
unescapeRegex ==
    EscapeRegex(4, 2, { "n", "r", "t", "b", "f", "v", "\\", "'", "\"", "0" })

\* The replacer callback: what a match is replaced by.
Replacer(captured) ==
    IF captured[1] = CharCode["u"]
    THEN <<fromCharCode(parseIntHex(Tail(captured)))>>
    ELSE IF captured[1] = CharCode["x"]
    THEN <<fromCharCode(parseIntHex(Tail(captured)))>>
    ELSE IF Len(captured) = 1 /\ captured[1] \in DOMAIN escapeMap
    THEN <<escapeMap[captured[1]]>>
    ELSE <<CharCode["\\"]>> \o captured

\* text.replace(regex, replacer): the text from index i on with every match
\* replaced, the text between the matches copied.
RECURSIVE ReplaceFrom(_, _, _)
ReplaceFrom(text, matches, i) ==
    IF matches = <<>> THEN SubSeq(text, i + 1, Len(text))
    ELSE SubSeq(text, i + 1, Head(matches).index)
           \o Replacer(Head(matches).captured)
           \o ReplaceFrom(text, Tail(matches),
                          Head(matches).index + 1 + Len(Head(matches).captured))

\* unescape run a second time on its own result.
unescape_Rescan(text) ==
    ReplaceFrom(ReplaceFrom(text, MatchesFrom(unescapeRegex, text, 0), 0),
                MatchesFrom(unescapeRegex,
                            ReplaceFrom(text, MatchesFrom(unescapeRegex, text, 0), 0),
                            0),
                0)

unescape(text) == ReplaceFrom(text, MatchesFrom(unescapeRegex, text, 0), 0)

\* ------------------------------------------------- countEscapeSequences
\* The grammar that takes \x with a single hex digit.
countRegex_OneHexDigit ==
    EscapeRegex(4, 1, { "n", "r", "t", "b", "f", "v", "\\", "'", "\"", "0" })

\* /\\(u[\da-fA-F]{4}|x[\da-fA-F]{2}|[nrtbfv\\'"0])/g of countEscapeSequences
countRegex ==
    EscapeRegex(4, 2, { "n", "r", "t", "b", "f", "v", "\\", "'", "\"", "0" })

displayName(escapeName) ==
    IF escapeName[1] = CharCode["u"] THEN Codes(<<"\\", "u">>)
    ELSE IF escapeName[1] = CharCode["x"] THEN Codes(<<"\\", "x">>)
    ELSE <<CharCode["\\"]>> \o escapeName

EscapeStats(total, breakdown) == [total |-> total, breakdown |-> breakdown]

\* The body of the while loop over the matches.
RECURSIVE CountLoop(_, _)
CountLoop(matches, stats) ==
    IF matches = <<>> THEN stats
    ELSE LET name == displayName(Head(matches).captured)
             before == IF name \in DOMAIN stats.breakdown
                       THEN stats.breakdown[name] ELSE 0
         IN  CountLoop(Tail(matches),
                       EscapeStats(stats.total + 1,
                                   [k \in DOMAIN stats.breakdown \cup { name } |->
                                       IF k = name THEN before + 1
                                       ELSE stats.breakdown[k]]))

countEscapeSequences(text) ==
    CountLoop(MatchesFrom(countRegex, text, 0), EscapeStats(0, [k \in {} |-> 0]))

\* ---------------------------------------------------------------- inputs
RECURSIVE Concat(_)
Concat(ss) == IF ss = <<>> THEN <<>> ELSE Head(ss) \o Concat(Tail(ss))

\* The lines of a text in which NL stands for a line break.
RECURSIVE SplitLines(_)
SplitLines(text) ==
    IF \A k \in 1..Len(text) : text[k] # NL THEN <<text>>
    ELSE LET k == CHOOSE k \in 1..Len(text) :
                      text[k] = NL /\ \A m \in 1..(k - 1) : text[m] # NL
         IN  <<SubSeq(text, 1, k - 1)>> \o SplitLines(SubSeq(text, k + 1, Len(text)))

SeqsUpTo(S, n) == UNION { [1..m -> S] : m \in 0..n }

\* General documents: every concatenation of at most MaxFrags fragments.
Fragments ==
    { <<DQ>>, <<SQ>>, <<BT>>, <<BS>>, <<DQ, DQ, DQ>>, <<"r">>, <<"a">>, <<NL>> }

FragmentDocs == { SplitLines(Concat(fs)) : fs \in SeqsUpTo(Fragments, MaxFrags) }

\* Documents of several lines, around spans that cross line breaks.
LineSet == { <<>>, <<BT>>, <<"a", BT>>, <<DQ, DQ, DQ>> }

LineDocs == UNION { [1..m -> LineSet] : m \in 1..MaxLines }

\* Strings whose closing delimiter follows a run of backslashes.
Delimiters == { <<DQ>>, <<SQ>>, <<BT>>, <<DQ, DQ, DQ>> }

EscapeDocs ==
    UNION { { <<p \o q \o a \o Repeat(BS, n) \o q \o t>> :
                p \in { <<>>, <<"r">>, <<"f">>, <<"a">> }, a \in { <<>>, <<"a">> },
                n \in 0..MaxBackslashes,
                t \in { <<>>, <<"a">>, <<"a">> \o q, <<BS, BS>> \o q } } :
            q \in Delimiters }

\* The parts A, B, C of the two forms below.
Parts == { <<>>, <<"a">>, <<"r">>, <<"b">>, <<"f">>, <<"@">>, <<"#">>,
           <<"r", "#">> }

\* """A"B"C""": a triple-double-quoted span around an inner pair of quotes;
\* a part may also hold a line break.
TripleForm(A, B, C) ==
    <<DQ, DQ, DQ>> \o A \o <<DQ>> \o B \o <<DQ>> \o C \o <<DQ, DQ, DQ>>

TripleDocs ==
    { SplitLines(TripleForm(A, B, C)) :
        A \in Parts \cup { <<NL>> }, B \in Parts \cup { <<"a", NL>> },
        C \in Parts \cup { <<NL, "a">> } }

\* "A" sep "B": two double-quoted strings on one line.
Separators == { <<>>, <<"a">>, <<"r">>, <<"#">> }

PairForm(A, sep, B) == <<DQ>> \o A \o <<DQ>> \o sep \o <<DQ>> \o B \o <<DQ>>

PairDocs == { <<PairForm(A, sep, B)>> : A \in Parts, sep \in Separators, B \in Parts }

\* Rust raw strings: r, n hashes and a quote, then a content, a quote with
\* at most n hashes, and possibly b and a quote with at most n hashes
\* (r##"a"#b"## is one of them).
RustStyles ==
    { k \in StyleIndexes : MatchAt(QUOTE_STYLES[k].prefix, 0, <<"r", "#">>) }

RustDocs ==
    UNION { { <<QUOTE_STYLES[k].prefix \o QUOTE_STYLES[k].open \o c \o <<DQ>>
                \o Repeat("#", m) \o t>> :
                c \in { <<>>, <<"a">>, <<DQ>> },
                m \in 0..CountChar(QUOTE_STYLES[k].prefix, "#"),
                t \in { <<>> } \cup
                      { <<"b", DQ>> \o Repeat("#", j) :
                          j \in 0..CountChar(QUOTE_STYLES[k].prefix, "#") } } :
            k \in RustStyles }

Documents ==
    FragmentDocs \cup LineDocs \cup EscapeDocs \cup TripleDocs \cup PairDocs
        \cup RustDocs

document == [lines |-> lines, eol |-> eol]

\* The positions of a document: a line, and a character from 0 to the length
\* of the line (the cursor after its last character).
Positions(ls) ==
    UNION { { Pos(l, c) : c \in 0..Len(ls[l + 1]) } : l \in 0..(Len(ls) - 1) }

\* ------------------------------------------------------ preview commands
\* JSON.parse on the texts of the model: white space apart, they are the
\* empty object, the empty array or the number 1, or they do not parse.
WhiteSpace == { 9, 10, 13, CharCode[" "] }

NotWhiteSpace(c) == c \notin WhiteSpace

JsonValues == { Codes(<<"{", "}">>), Codes(<<"[", "]">>), Codes(<<"1">>) }

JsonParses(t) == SelectSeq(t, NotWhiteSpace) \in JsonValues

\* JSON.stringify(JSON.parse(t), null, indent): the value without white
\* space, whatever the indent (an empty object, an empty array, a number).
JsonStringify(t) == SelectSeq(t, NotWhiteSpace)

\* String.prototype.trim
RECURSIVE Trim(_)
Trim(t) ==
    IF t = <<>> THEN t
    ELSE IF Head(t) \in WhiteSpace THEN Trim(Tail(t))
    ELSE IF t[Len(t)] \in WhiteSpace THEN Trim(SubSeq(t, 1, Len(t) - 1))
    ELSE t

Wrapped(t, first, last) ==
    t # <<>> /\ t[1] = CharCode[first] /\ t[Len(t)] = CharCode[last]

\* detectLanguage on the texts of the model, none of which holds an html
\* tag or begins with a keyword of JavaScript, SQL or Python.
detectLanguage(content) ==
    LET trimmed == Trim(content)
    IN  IF (Wrapped(trimmed, "{", "}") \/ Wrapped(trimmed, "[", "]"))
            /\ JsonParses(trimmed)
        THEN "json"
        ELSE IF Wrapped(trimmed, "<", ">") THEN "xml"
        ELSE "undefined"

\* The extension showPreview gives the path.
Extension(language) ==
    IF language = "json" THEN <<".json">>
    ELSE IF language = "javascript" THEN <<".js">>
    ELSE IF language = "typescript" THEN <<".ts">>
    ELSE IF language = "python" THEN <<".py">>
    ELSE IF language = "xml" THEN <<".xml">>
    ELSE IF language = "html" THEN <<".html">>
    ELSE IF language = "sql" THEN <<".sql">>
    ELSE <<>>

\* The decimal digits of a number, as a template literal writes it.
RECURSIVE Decimal(_)
Decimal(n) ==
    LET digit == <<"0", "1", "2", "3", "4", "5", "6", "7", "8", "9">>[(n % 10) + 1]
    IN  IF n < 10 THEN <<digit>> ELSE Decimal(n \div 10) \o <<digit>>

\* The path that ignores the counter.
PreviewPath_NoCounter(counter, ext) == <<"/preview-">> \o ext

\* `/preview-${++previewCounter}${ext}`, counter being the incremented value
PreviewPath(counter, ext) == <<"/preview-">> \o Decimal(counter) \o ext

\* formatJson that gives the text back when it does not parse.
formatJson_ReturnsOriginal(t) ==
    [threw |-> FALSE, value |-> IF JsonParses(t) THEN JsonStringify(t) ELSE t]

\* formatJson: the formatted text, or the throw of Error('Invalid JSON format').
formatJson(t) ==
    IF JsonParses(t) THEN [threw |-> FALSE, value |-> JsonStringify(t)]
    ELSE [threw |-> TRUE, value |-> <<>>]

\* getTextToProcess: null without an active editor, else the selection or
\* the string at the cursor (found), which is null when there is none.
getTextToProcess(editor, found) == IF ~editor THEN Null ELSE found

\* ----------------------------------------------------------- state machine
NoRet == [isNull |-> TRUE, none |-> TRUE]

\* An invocation of a preview command that has not begun.
IdleInvocation ==
    [command |-> "none", pc |-> "idle", text |-> Null, message |-> "none",
     path |-> <<>>, content |-> <<>>, language |-> "undefined"]

Invocations == 1..MaxInvocations

\* No file: previewCounter = 0 and an empty contentMap, nothing invoked.
PreviewStart ==
    /\ previewCounter = 0
    /\ contentMap = <<>>
    /\ invocation = [i \in Invocations |-> IdleInvocation]
    /\ openDocuments = <<>>

\* ---- the extractor
Init ==
    /\ lines \in Documents
    /\ eol \in (IF Len(lines) > 1 THEN {LF, CRLF} ELSE {LF})
    /\ position \in Positions(lines)
    /\ call = "none"
    /\ ret = NoRet
    /\ escaped = <<>>
    /\ PreviewStart

CallExtractStringAtPosition ==
    /\ call = "none"
    /\ call' = "extractStringAtPosition"
    /\ ret' = extractStringAtPosition(document, position)
    /\ UNCHANGED <<lines, eol, position, escaped, previewVars>>

CallExtractStringWithDetails ==
    /\ call = "none"
    /\ call' = "extractStringWithDetails"
    /\ ret' = extractStringWithDetails(document, position)
    /\ UNCHANGED <<lines, eol, position, escaped, previewVars>>

Next == CallExtractStringAtPosition \/ CallExtractStringWithDetails

Spec == Init /\ [][Next]_vars

\* ---- unescape and countEscapeSequences
\* The pieces the texts are built from: a backslash, escape letters, hex
\* digits in both cases and a letter that is neither.
CodecFragments ==
    { <<BS>>, <<"n">>, <<"u">>, <<"x">>, <<"0">>, <<"4", "1">>, <<"0", "0">>,
      <<"f", "F">>, <<"g">> }

CodecTexts == { Codes(Concat(fs)) : fs \in SeqsUpTo(CodecFragments, MaxCodecFrags) }

InitCodec ==
    /\ lines = <<"">>
    /\ eol = LF
    /\ position = Pos(0, 0)
    /\ call = "none"
    /\ ret = NoRet
    /\ escaped \in CodecTexts
    /\ PreviewStart

CallUnescape ==
    /\ call = "none"
    /\ call' = "unescape"
    /\ ret' = Str(unescape(escaped))
    /\ UNCHANGED <<lines, eol, position, escaped, previewVars>>

CallCountEscapeSequences ==
    /\ call = "none"
    /\ call' = "countEscapeSequences"
    /\ ret' = countEscapeSequences(escaped)
    /\ UNCHANGED <<lines, eol, position, escaped, previewVars>>

NextCodec == CallUnescape \/ CallCountEscapeSequences

SpecCodec == InitCodec /\ [][NextCodec]_vars

\* ---- the preview commands
\* What the editor can hold under the selection or the cursor: nothing,
\* the empty string, JSON behind an escape, JSON, a number, text that is not
\* JSON, a tag.
PreviewTexts ==
    { Codes(cs) : cs \in { <<>>,
                           <<"[", BS, "n", "]">>,
                           <<"{", "}">>,
                           <<" ", "1">>,
                           <<"{">>,
                           <<BS, DQ>>,
                           <<"<", "g", ">">> } }

PreviewInputs == {Null} \cup { Str(t) : t \in PreviewTexts }

InitPreview ==
    /\ lines = <<"">>
    /\ eol = LF
    /\ position = Pos(0, 0)
    /\ call = "none"
    /\ ret = NoRet
    /\ escaped = <<>>
    /\ PreviewStart

\* Map.prototype.set
MapSet(map, key, value) ==
    [k \in DOMAIN map \cup {key} |-> IF k = key THEN value ELSE map[k]]

\* contentMap.get(uri.path) ?? ''
provideTextDocumentContent(path) ==
    IF path \in DOMAIN contentMap THEN contentMap[path] ELSE <<>>

\* The command ends after showing a message and nothing else.
EndWithMessage(i, command, t, message) ==
    /\ invocation' = [invocation EXCEPT ![i] =
            [IdleInvocation EXCEPT !.command = command, !.pc = "done",
                                   !.text = t, !.message = message]]
    /\ UNCHANGED <<previewCounter, contentMap, openDocuments>>

\* showPreview up to its first await: the path takes the incremented
\* counter, the content is stored, openTextDocument is called.
showPreview(i, command, t, content, language) ==
    LET detected == IF language = "undefined" THEN detectLanguage(content)
                    ELSE language
        path == PreviewPath(previewCounter + 1, Extension(detected))
    IN  /\ previewCounter' = previewCounter + 1
        /\ contentMap' = MapSet(contentMap, path, content)
        /\ invocation' = [invocation EXCEPT ![i] =
                [command |-> command, pc |-> "openTextDocument",
                 text |-> t, message |-> "none", path |-> path, content |-> content,
                 language |-> detected]]
        /\ UNCHANGED openDocuments

\* The command unescape.preview, up to its first await.
Preview(i) ==
    /\ invocation[i].pc = "idle"
    /\ \E editor \in BOOLEAN, found \in PreviewInputs :
         LET t == getTextToProcess(editor, found)
         IN  IF t.isNull \/ t.content = <<>>
             THEN EndWithMessage(i, "unescape.preview", t,
                                 "No text selected or found at cursor position")
             ELSE showPreview(i, "unescape.preview", t, unescape(t.content),
                              "undefined")
    /\ UNCHANGED <<lines, eol, position, call, ret, escaped>>

\* The command unescape.previewJson, up to its first await.
PreviewJson(i) ==
    /\ invocation[i].pc = "idle"
    /\ \E editor \in BOOLEAN, found \in PreviewInputs :
         LET t == getTextToProcess(editor, found)
         IN  IF t.isNull \/ t.content = <<>>
             THEN EndWithMessage(i, "unescape.previewJson", t,
                                 "No text selected or found at cursor position")
             ELSE LET formattedJson == formatJson(unescape(t.content))
                  IN  IF formattedJson.threw
                      THEN EndWithMessage(i, "unescape.previewJson", t,
                                          "Invalid JSON format")
                      ELSE showPreview(i, "unescape.previewJson", t,
                                       formattedJson.value, "json")
    /\ UNCHANGED <<lines, eol, position, call, ret, escaped>>

\* The host opens the document: it asks the provider for the content of
\* the uri, and openTextDocument resolves.
OpenTextDocument(i) ==
    /\ invocation[i].pc = "openTextDocument"
    /\ openDocuments' = MapSet(openDocuments, invocation[i].path,
                               provideTextDocumentContent(invocation[i].path))
    /\ invocation' = [invocation EXCEPT ![i].pc =
            IF invocation[i].language # "undefined"
            THEN "setTextDocumentLanguage" ELSE "showTextDocument"]
    /\ UNCHANGED <<lines, eol, position, call, ret, escaped,
                   previewCounter, contentMap>>

\* setTextDocumentLanguage resolves.
SetTextDocumentLanguage(i) ==
    /\ invocation[i].pc = "setTextDocumentLanguage"
    /\ invocation' = [invocation EXCEPT ![i].pc = "showTextDocument"]
    /\ UNCHANGED <<lines, eol, position, call, ret, escaped,
                   previewCounter, contentMap, openDocuments>>

\* showTextDocument resolves and the command ends.
ShowTextDocument(i) ==
    /\ invocation[i].pc = "showTextDocument"
    /\ invocation' = [invocation EXCEPT ![i].pc = "done"]
    /\ UNCHANGED <<lines, eol, position, call, ret, escaped,
                   previewCounter, contentMap, openDocuments>>

\* An awaited call of the host rejects: unescape.previewJson catches it and
\* shows the message of the Error, or 'Invalid JSON format' when what was
\* thrown is not an Error; unescape.preview has no catch.
HostRejects(i) ==
    /\ invocation[i].pc \in
           {"openTextDocument", "setTextDocumentLanguage", "showTextDocument"}
    /\ \E isError \in BOOLEAN :
         invocation' = [invocation EXCEPT
            ![i].pc = "done",
            ![i].message = IF invocation[i].command # "unescape.previewJson"
                           THEN "unhandled rejection"
                           ELSE IF isError THEN "error.message"
                           ELSE "Invalid JSON format"]
    /\ UNCHANGED <<lines, eol, position, call, ret, escaped,
                   previewCounter, contentMap, openDocuments>>

NextPreview ==
    \E i \in Invocations :
        \/ Preview(i)
        \/ PreviewJson(i)
        \/ OpenTextDocument(i)
        \/ SetTextDocumentLanguage(i)
        \/ ShowTextDocument(i)
        \/ HostRejects(i)

SpecPreview == InitPreview /\ [][NextPreview]_vars


\* ------------------------------------------------ what the claims speak of
\* The states a scan goes through, in order, up to its return.
RECURSIVE ScanTrace(_, _, _, _, _)
ScanTrace(text, cursor, quoteStyle, close, s) ==
    IF s.mode \in {"found", "end"} THEN <<s>>
    ELSE <<s>> \o ScanTrace(text, cursor, quoteStyle, close,
                            ScanStep(text, cursor, quoteStyle, close, s))

\* The text a style scans, the cursor it compares spans with and the closing
\* delimiter it searches for, as FindWithStyle hands them to the scan.
ScanText(d, pos, quoteStyle) ==
    IF quoteStyle.multiLine THEN getText(d) ELSE lineAt(d, pos.line)

ScanCursor(d, pos, quoteStyle) ==
    IF quoteStyle.multiLine THEN CursorOffset(d, pos.line, pos.character)
    ELSE pos.character

ScanClose(quoteStyle) ==
    IF quoteStyle.multiLine THEN closeToMatch(quoteStyle) ELSE quoteStyle.close

TraceOf(k) ==
    ScanTrace(ScanText(document, position, QUOTE_STYLES[k]),
              ScanCursor(document, position, QUOTE_STYLES[k]),
              QUOTE_STYLES[k], ScanClose(QUOTE_STYLES[k]), ScanStart)

\* The number of consecutive backslashes immediately before 0-based index p.
BackslashesBefore(text, p) ==
    CHOOSE m \in 0..p :
        /\ \A q \in (p - m + 1)..p : text[q] = BS
        /\ m = p \/ text[p - m] # BS

\* State s of a scan of text is at a closing delimiter while searching for
\* the close of a confirmed open.
AtClose(text, close, s) ==
    s.mode = "inner" /\ s.i < Len(text) /\ MatchAt(text, s.i, close)

\* The spans the scan of a text with a style delimits, one after the other:
\* those of the scan with a cursor that lies in none of them.
Spans(text, quoteStyle, close) ==
    LET tr == ScanTrace(text, -1, quoteStyle, close, ScanStart)
    IN  { [start |-> tr[n].start, contentStart |-> tr[n].contentStart,
           contentEnd |-> tr[n].i, end |-> tr[n].i + Len(close)] :
            n \in { m \in 1..(Len(tr) - 1) :
                      AtClose(text, close, tr[m]) /\ tr[m + 1].mode = "outer" } }

SpansOf(k) ==
    Spans(ScanText(document, position, QUOTE_STYLES[k]), QUOTE_STYLES[k],
          ScanClose(QUOTE_STYLES[k]))

\* The result of scanning with style k as the table says: the cursor line
\* alone for a single-line style, the whole document for a multi-line one.
StyleResult(k) ==
    IF QUOTE_STYLES[k].multiLine
    THEN findMultiLineString(document, position.line, position.character,
                             QUOTE_STYLES[k])
    ELSE findSingleLineString(lineAt(document, position.line), position.line,
                              position.character, QUOTE_STYLES[k])

\* No style before style k in the table yields a span for the cursor.
NoEarlierStyle(k) == \A j \in 1..(k - 1) : StyleResult(j).isNull

C2_EscapedCloseSkipped ==
    call # "none" =>
        \A k \in StyleIndexes : QUOTE_STYLES[k].supportsEscape =>
            \A text \in { ScanText(document, position, QUOTE_STYLES[k]) } :
            \A close \in { ScanClose(QUOTE_STYLES[k]) } :
            \A tr \in { TraceOf(k) } :
            \A n \in 1..(Len(tr) - 1) : AtClose(text, close, tr[n]) =>
                IF BackslashesBefore(text, tr[n].i) % 2 = 1
                THEN tr[n + 1] = [tr[n] EXCEPT !.i = tr[n].i + 1]
                ELSE \/ /\ tr[n + 1].mode = "found"
                        /\ tr[n + 1].contentEnd = tr[n].i
                        /\ tr[n + 1].end = tr[n].i + Len(close)
                     \/ /\ tr[n + 1].mode = "outer"
                        /\ tr[n + 1].i = tr[n].i + Len(close)

\* A scan that skips a close after one backslash and accepts one after two.
C2_Witness ==
    /\ call # "none"
    /\ \E k \in StyleIndexes :
        /\ QUOTE_STYLES[k].supportsEscape
        /\ \E text \in { ScanText(document, position, QUOTE_STYLES[k]) } :
           \E close \in { ScanClose(QUOTE_STYLES[k]) } :
           \E tr \in { TraceOf(k) } :
               /\ \E n \in 1..(Len(tr) - 1) :
                    /\ AtClose(text, close, tr[n])
                    /\ BackslashesBefore(text, tr[n].i) = 1
                    /\ tr[n + 1].mode = "inner"
               /\ \E n \in 1..(Len(tr) - 1) :
                    /\ AtClose(text, close, tr[n])
                    /\ BackslashesBefore(text, tr[n].i) = 2
                    /\ tr[n + 1].mode # "inner"

\* ---------------------------------------------------------------- C3
FullText == getText(document)

\* The offset in the full text of a position of the document.
TrueOffset(pos) == lineOffset(document, pos.line) + pos.character

HasNone(text, chars) == \A i \in 1..Len(text) : text[i] \notin chars

\* Some prefixed style has its prefix immediately before its opening
\* delimiter somewhere in the text.
PrefixBeforeOpen(text) ==
    \E k \in StyleIndexes :
        /\ QUOTE_STYLES[k].prefix # <<>>
        /\ \E i \in 0..(Len(text) - 1) :
            MatchAt(text, i, QUOTE_STYLES[k].prefix \o QUOTE_STYLES[k].open)

\* The text ends with the prefix of some style.
EndsWithPrefix(text) ==
    \E k \in StyleIndexes :
        /\ QUOTE_STYLES[k].prefix # <<>>
        /\ Len(text) >= Len(QUOTE_STYLES[k].prefix)
        /\ MatchAt(text, Len(text) - Len(QUOTE_STYLES[k].prefix),
                   QUOTE_STYLES[k].prefix)

TripleContent == Substring(FullText, 3, Len(FullText) - 3)

\* The document is """A"B"C""": A, B, C free of quote characters and of
\* backslashes, C not empty (with an empty C the text ends in four quotes,
\* of which the first three close the span).
IsTripleForm ==
    /\ Len(FullText) >= 9
    /\ MatchAt(FullText, 0, <<DQ, DQ, DQ>>)
    /\ MatchAt(FullText, Len(FullText) - 3, <<DQ, DQ, DQ>>)
    /\ CountChar(TripleContent, DQ) = 2
    /\ HasNone(TripleContent, { SQ, BT, BS })
    /\ TripleContent[Len(TripleContent)] # DQ

\* C3 as stated: on """A"B"C""" (here with A and B not empty either) with
\* the cursor on a character of the content, extractStringAtPosition returns
\* the whole content A"B"C.
C3_TripleQuoteWholeContent ==
    (/\ call = "extractStringAtPosition"
     /\ IsTripleForm
     /\ TripleContent[1] # DQ
     /\ \A i \in 0..(Len(TripleContent) - 1) : ~MatchAt(TripleContent, i, <<DQ, DQ>>)
     /\ 3 <= TrueOffset(position)
     /\ TrueOffset(position) < Len(FullText) - 3) =>
        ret = Str(TripleContent)

\* C3, amended: on """A"B"C""" in which no style prefix (r, b, f, @, r#,
\* r##, r###) stands immediately before a double quote, with the cursor on
\* any character of the span, extractStringAtPosition returns the whole
\* content A"B"C; the inner pair of quotes is not taken as the boundary.
C3_TripleQuoteWithoutPrefix ==
    (/\ call = "extractStringAtPosition"
     /\ IsTripleForm
     /\ ~PrefixBeforeOpen(FullText)
     /\ TrueOffset(position) < Len(FullText)) =>
        ret = Str(TripleContent)

\* extractStringAtPosition has returned the whole content with the cursor
\* between the inner pair of quotes, on the second line of the span.
C3_Witness ==
    /\ call = "extractStringAtPosition"
    /\ IsTripleForm
    /\ ~PrefixBeforeOpen(FullText)
    /\ position.line = 1
    /\ eol = CRLF
    /\ FullText[TrueOffset(position) + 1] = DQ
    /\ CountChar(Substring(FullText, 3, TrueOffset(position)), DQ) = 1
    /\ ret = Str(TripleContent)

\* ---------------------------------------------------------------- C4
QuoteIndexes(text) == { i \in 0..(Len(text) - 1) : text[i + 1] = DQ }

Lowest(S) == CHOOSE x \in S : \A y \in S : x <= y
Highest(S) == CHOOSE x \in S : \A y \in S : x >= y

\* The document is the line "A" sep "B": A, B and sep free of quote
\* characters and of backslashes.
IsPairForm ==
    /\ Len(lines) = 1
    /\ Cardinality(QuoteIndexes(lines[1])) = 4
    /\ lines[1][1] = DQ
    /\ lines[1][Len(lines[1])] = DQ
    /\ HasNone(lines[1], { SQ, BT, BS })

\* The indexes of the closing quote of A and of the opening quote of B.
CloseOfA == Lowest(QuoteIndexes(lines[1]) \ { 0 })
OpenOfB == Highest(QuoteIndexes(lines[1]) \ { Len(lines[1]) - 1 })

PartA == Substring(lines[1], 1, CloseOfA)
PartB == Substring(lines[1], OpenOfB + 1, Len(lines[1]) - 1)

\* C4 as stated: on the line "A" sep "B" (here with A and B not empty), a
\* cursor on a character of A yields A and a cursor on a character of B
\* yields B.
C4_EachStringOfAPair ==
    (call = "extractStringAtPosition" /\ IsPairForm
        /\ PartA # <<>> /\ PartB # <<>>) =>
        /\ (0 < position.character /\ position.character < CloseOfA) =>
                ret = Str(PartA)
        /\ (OpenOfB < position.character
              /\ position.character < Len(lines[1]) - 1) =>
                ret = Str(PartB)

\* C4, amended: on the line "A" sep "B" in which A does not end with a
\* style prefix (r, b, f, @, r#, r##, r###), a cursor inside A yields A
\* and a cursor inside B yields B.
C4_EachStringWithoutPrefix ==
    (call = "extractStringAtPosition" /\ IsPairForm /\ ~EndsWithPrefix(PartA)) =>
        /\ (0 < position.character /\ position.character <= CloseOfA) =>
                ret = Str(PartA)
        /\ (OpenOfB < position.character
              /\ position.character <= Len(lines[1]) - 1) =>
                ret = Str(PartB)

\* extractStringAtPosition has returned B, which differs from A and from the
\* text between the strings, with the cursor on a character of B.
C4_Witness ==
    /\ call = "extractStringAtPosition"
    /\ IsPairForm
    /\ ~EndsWithPrefix(PartA)
    /\ OpenOfB < position.character
    /\ position.character < Len(lines[1]) - 1
    /\ PartB # PartA
    /\ PartA # <<>>
    /\ Substring(lines[1], CloseOfA + 1, OpenOfB) \notin { <<>>, PartB }
    /\ ret = Str(PartB)

\* ---------------------------------------------------------------- C5
\* The unprefixed multi-line styles: the triple quotes and the backtick.
PlainMultiLineStyles ==
    { k \in StyleIndexes : QUOTE_STYLES[k].multiLine /\ QUOTE_STYLES[k].prefix = <<>> }

\* The offset of the cursor in the text style k scans.
TrueCursor(k) ==
    IF QUOTE_STYLES[k].multiLine THEN TrueOffset(position) ELSE position.character

\* No style other than k delimits a span that holds the cursor.
NoOtherSpanAtCursor(k) ==
    \A j \in StyleIndexes \ { k } : \A other \in SpansOf(j) :
        ~(other.start <= TrueCursor(j) /\ TrueCursor(j) < other.end)

\* C5: where a backtick or triple-quoted span crosses a line break (and no
\* other style has a span at the cursor), a cursor on any character of its
\* content, on whichever line, makes extractStringAtPosition return the full
\* content with its line breaks.
C5_MultiLineSpanFromAnyLine ==
    call = "extractStringAtPosition" =>
        \A k \in PlainMultiLineStyles : \A sp \in SpansOf(k) :
            (/\ CountChar(Substring(FullText, sp.contentStart, sp.contentEnd), NL) > 0
             /\ sp.contentStart <= TrueOffset(position)
             /\ TrueOffset(position) < sp.contentEnd
             /\ NoOtherSpanAtCursor(k)) =>
                ret = Str(Substring(FullText, sp.contentStart, sp.contentEnd))

\* ---------------------------------------------------------------- C6
\* The standard styles: the unprefixed single-line double and single quote.
StandardStyles ==
    { k \in StyleIndexes : ~QUOTE_STYLES[k].multiLine /\ QUOTE_STYLES[k].prefix = <<>> }

\* The standard style k pairs two adjacent quotes and the cursor is between
\* the two.
CursorInEmptyString(k) ==
    \E sp \in SpansOf(k) :
        sp.contentStart = sp.contentEnd /\ position.character = sp.contentStart

\* C6 as stated: with the cursor between two adjacent quotes that a standard
\* style pairs, extractStringAtPosition returns the empty string.
C6_EmptyStringFound ==
    call = "extractStringAtPosition" =>
        \A k \in StandardStyles : CursorInEmptyString(k) => ret = Str(<<>>)

\* C6, amended: with the cursor between two adjacent quotes that a standard
\* style pairs, extractStringAtPosition returns a string and not null: the
\* empty string, unless a style earlier in QUOTE_STYLES yields a span for the
\* cursor.
C6_EmptyStringNotNull ==
    call = "extractStringAtPosition" =>
        \A k \in StandardStyles : CursorInEmptyString(k) =>
            /\ ~ret.isNull
            /\ NoEarlierStyle(k) => ret = Str(<<>>)

\* extractStringAtPosition has returned the empty string between the quotes
\* of an empty string that follows other text on its line.
C6_Witness ==
    /\ call = "extractStringAtPosition"
    /\ \E k \in StandardStyles :
        CursorInEmptyString(k) /\ NoEarlierStyle(k) /\ position.character >= 2
    /\ ret = Str(<<>>)

\* ---------------------------------------------------------------- C8
StandardDouble ==
    CHOOSE k \in StyleIndexes :
        QUOTE_STYLES[k] = QuoteStyle(<<DQ>>, <<DQ>>, TRUE, FALSE, <<>>, FALSE)

\* The cursor line holds exactly one double-quoted string, its content free
\* of quotes and backslashes, and no other style delimits anything in what
\* it scans.
OnlyOneDoubleQuoted ==
    /\ Cardinality(SpansOf(StandardDouble)) = 1
    /\ \A k \in StyleIndexes \ { StandardDouble } : SpansOf(k) = {}
    /\ \A sp \in SpansOf(StandardDouble) :
        HasNone(Substring(lineAt(document, position.line), sp.contentStart,
                          sp.contentEnd), { DQ, SQ, BT, BS })

\* C8: on such a line extractStringAtPosition returns the content when the
\* cursor is anywhere from the opening quote to the closing quote, both
\* included, and null when it is before the opening quote or after the
\* closing quote: the accepted range is [start, end).
C8_HalfOpenCursorRange ==
    (call = "extractStringAtPosition" /\ OnlyOneDoubleQuoted) =>
        \A sp \in SpansOf(StandardDouble) :
            ret = IF sp.start <= position.character /\ position.character < sp.end
                  THEN Str(Substring(lineAt(document, position.line),
                                     sp.contentStart, sp.contentEnd))
                  ELSE Null

\* extractStringAtPosition has returned null with the cursor immediately
\* after the closing quote of a string that has text before and after it.
C8_Witness ==
    /\ call = "extractStringAtPosition"
    /\ OnlyOneDoubleQuoted
    /\ \E sp \in SpansOf(StandardDouble) :
        /\ sp.start > 0
        /\ sp.contentEnd > sp.contentStart
        /\ position.character = sp.end
        /\ sp.end < Len(lineAt(document, position.line))
    /\ ret = Null

\* ---------------------------------------------------------------- C9
PosBefore(p, q) == p.line < q.line \/ (p.line = q.line /\ p.character < q.character)

\* C9: a result of extractStringWithDetails starts at the first character of
\* the matched token (of the prefix when there is one), ends immediately
\* after the closing delimiter matched, has for content the text between the
\* two delimiters, and holds the cursor: start <= cursor < end.
C9_SpanBoundsAndCursor ==
    (call = "extractStringWithDetails" /\ ~ret.isNull) =>
        LET close == ScanClose(ret.quoteStyle)
            opening == ret.quoteStyle.prefix \o ret.quoteStyle.open
            from == TrueOffset(ret.start)
            to == TrueOffset(ret.end)
        IN  /\ MatchAt(FullText, from, opening)
            /\ MatchAt(FullText, to - Len(close), close)
            /\ ret.content = Substring(FullText, from + Len(opening), to - Len(close))
            /\ ~PosBefore(position, ret.start)
            /\ PosBefore(position, ret.end)

\* ---------------------------------------------------------------- C7
QuoteCharacters == { DQ, SQ, BT }

NoQuoteCharacter ==
    \A l \in 1..Len(lines) : \A c \in 1..Len(lines[l]) :
        lines[l][c] \notin QuoteCharacters

\* C7: on a document with no quote character, the empty document included,
\* extractStringAtPosition and extractStringWithDetails return null at every
\* position of the document.
C7_NoQuoteNoString ==
    (NoQuoteCharacter /\ call # "none") => ret = Null

\* extractStringWithDetails has returned null on a line of several
\* characters, a prefix letter among them.
C7_Witness ==
    /\ NoQuoteCharacter
    /\ call = "extractStringWithDetails"
    /\ ret = Null
    /\ \E l \in 1..Len(lines) :
        Len(lines[l]) >= 2 /\ \E c \in 1..Len(lines[l]) : lines[l][c] = "r"

\* ---------------------------------------------------------------- C10
\* The results of all styles, in table order.
StyleResults == [k \in StyleIndexes |-> StyleResult(k)]

Matching(results) == { k \in StyleIndexes : ~results[k].isNull }

First(S) == CHOOSE k \in S : \A j \in S : k <= j

\* C10: extractStringWithDetails returns the span of the lowest-index style
\* whose scan yields one, and null exactly when no style yields one;
\* extractStringAtPosition returns the content of that same span, and null
\* in the same cases.
C10_FirstStyleInTableOrder ==
    call # "none" =>
        \A results \in { StyleResults } :
        \A matching \in { Matching(results) } :
            /\ call = "extractStringWithDetails" =>
                IF matching = {} THEN ret = Null
                ELSE ret = results[First(matching)]
            /\ call = "extractStringAtPosition" =>
                IF matching = {} THEN ret = Null
                ELSE ret = Str(results[First(matching)].content)

\* extractStringAtPosition has returned where two styles yield spans of
\* different contents.
C10_Witness ==
    /\ call = "extractStringAtPosition"
    /\ \E results \in { StyleResults } :
       \E j, k \in Matching(results) : results[j].content # results[k].content

\* ---------------------------------------------------------------- C11
\* The fence of a Rust raw-string style: a double quote followed by as many
\* hashes as its prefix holds.
Fence(k) == <<DQ>> \o Repeat("#", CountChar(QUOTE_STYLES[k].prefix, "#"))

\* The indexes of a trace at which the scan ends a span: it stands in the
\* search for the close and leaves it without being at the end of the text.
Closings(text, tr) ==
    { n \in 1..(Len(tr) - 1) :
        /\ tr[n].mode = "inner" /\ tr[n].i < Len(text)
        /\ tr[n + 1].mode \in { "found", "outer" } }

RustExample ==
    <<"r", "#", "#", DQ, "a", DQ, "#", "b", DQ, "#", "#">>

\* C11: the scan of a Rust raw-string style with n hashes ends a span only
\* at a double quote followed by n hashes, and at the first such occurrence
\* after the opening quote; on r##"a"#b"## with the cursor inside,
\* extractStringAtPosition returns a"#b.
C11_FenceWidthClosesSpan ==
    /\ call = "extractStringWithDetails" =>
          \A k \in RustStyles :
            \A tr \in { TraceOf(k) } : \A n \in Closings(FullText, tr) :
                /\ MatchAt(FullText, tr[n].i, Fence(k))
                /\ \A q \in tr[n].contentStart..(tr[n].i - 1) :
                        ~MatchAt(FullText, q, Fence(k))
    /\ (call = "extractStringAtPosition" /\ lines = <<RustExample>>
          /\ position.character < Len(RustExample)) =>
            ret = Str(<<"a", DQ, "#", "b">>)

\* extractStringAtPosition has returned a"#b on r##"a"#b"## with the cursor
\* on the quote that one hash follows.
C11_Witness ==
    /\ call = "extractStringAtPosition"
    /\ lines = <<RustExample>>
    /\ position.character = 5
    /\ ret = Str(<<"a", DQ, "#", "b">>)

\* ---------------------------------------------------------------- C15
\* Style b is the shorter or unprefixed equivalent of style a: same prefix
\* and a opens with three times the one character b opens with, or same
\* opening delimiter and a alone has a prefix.
ShorterEquivalent(a, b) ==
    \/ /\ a.prefix = b.prefix
       /\ Len(b.open) = 1
       /\ a.open = b.open \o b.open \o b.open
    \/ /\ a.open = b.open
       /\ a.prefix # <<>>
       /\ b.prefix = <<>>

\* C15: whatever the document, in QUOTE_STYLES every style stands at a lower
\* index than its shorter or unprefixed equivalents.
C15_LongerOrPrefixedFirst ==
    Len(lines) > 0 =>
        \A a, b \in StyleIndexes :
            ShorterEquivalent(QUOTE_STYLES[a], QUOTE_STYLES[b]) => a < b

\* ---------------------------------------------------------------- C16
\* C16: in the scan of every style, every iteration of the outer and of the
\* inner loop moves the index i forward, and a loop exit or the return of a
\* span leaves it where it is; after a completed token the scan resumes at
\* the end of the token, after an opener with no close it is at the end of
\* the text; the scan takes at most as many iterations as the text has
\* characters, and it returns.
C16_ScanIndexIncreases ==
    call = "extractStringAtPosition" =>
        \A k \in StyleIndexes :
            \A text \in { ScanText(document, position, QUOTE_STYLES[k]) } :
            \A close \in { ScanClose(QUOTE_STYLES[k]) } :
            \A tr \in { TraceOf(k) } :
                /\ \A n \in 1..(Len(tr) - 1) :
                    /\ IF tr[n].i < Len(text) /\ tr[n + 1].mode # "found"
                       THEN tr[n + 1].i > tr[n].i
                       ELSE tr[n + 1].i = tr[n].i
                    /\ (tr[n].mode = "inner" /\ tr[n + 1].mode = "outer") =>
                            IF tr[n].i < Len(text)
                            THEN tr[n + 1].i = tr[n].i + Len(close)
                            ELSE tr[n].i = Len(text)
                /\ Cardinality({ n \in 1..(Len(tr) - 1) : tr[n].i < Len(text) })
                     <= Len(text)
                /\ tr[Len(tr)].mode \in { "found", "end" }

\* A scan that completes a token without the cursor, resumes at its end,
\* opens a second token and reaches the end of the text without a close.
C16_Witness ==
    /\ call = "extractStringAtPosition"
    /\ \E k \in StyleIndexes :
        \E text \in { ScanText(document, position, QUOTE_STYLES[k]) } :
        \E tr \in { TraceOf(k) } :
            /\ \E n \in 1..(Len(tr) - 1) :
                /\ tr[n].mode = "inner" /\ tr[n + 1].mode = "outer"
                /\ tr[n].i < Len(text) /\ tr[n + 1].i < Len(text)
            /\ \E n \in 1..(Len(tr) - 1) :
                /\ tr[n].mode = "inner" /\ tr[n + 1].mode = "outer"
                /\ tr[n].i = Len(text)
            /\ tr[Len(tr)].mode = "end"

\* ---------------------------------------------------------------- C17
\* The prefixed single-line styles.
PrefixedLineStyles ==
    { k \in StyleIndexes : ~QUOTE_STYLES[k].multiLine /\ QUOTE_STYLES[k].prefix # <<>> }

\* The indexes at which the scan of the cursor line with style k starts or
\* resumes: the line start and the end of every token it completes.
ResumePoints(k) == { 0 } \cup { sp.end : sp \in SpansOf(k) }

\* The indexes at or after p at which the prefix of style k stands
\* immediately followed by its opening delimiter.
TokenStarts(line, k, p) ==
    { q \in p..(Len(line) - 1) :
        MatchAt(line, q, QUOTE_STYLES[k].prefix \o QUOTE_STYLES[k].open) }

\* The indexes from p on at which an unescaped closing delimiter stands.
RealCloses(line, k, p) ==
    { c \in p..(Len(line) - 1) :
        /\ MatchAt(line, c, QUOTE_STYLES[k].close)
        /\ QUOTE_STYLES[k].supportsEscape => BackslashesBefore(line, c) % 2 = 0 }

\* C17: for every prefixed single-line style, from the line start and from
\* the end of every completed token, the first index at which the prefix
\* stands immediately followed by the opening delimiter starts a token: when
\* an unescaped closing delimiter follows and the cursor lies between that
\* index and the end of the closing delimiter, findSingleLineString returns
\* the span that starts at that index.
C17_PrefixOccurrenceNotSkipped ==
    call = "extractStringWithDetails" =>
        \A k \in PrefixedLineStyles :
            \A line \in { lineAt(document, position.line) } :
            \A p \in ResumePoints(k) :
                LET starts == TokenStarts(line, k, p)
                    opening == QUOTE_STYLES[k].prefix \o QUOTE_STYLES[k].open
                IN  starts # {} =>
                      LET q == Lowest(starts)
                          closes == RealCloses(line, k, q + Len(opening))
                      IN  closes # {} =>
                            LET c == Lowest(closes)
                                endChar == c + Len(QUOTE_STYLES[k].close)
                            IN  (q <= position.character
                                   /\ position.character < endChar) =>
                                    StyleResult(k) =
                                      ExtractResult(
                                        Substring(line, q + Len(opening), c),
                                        Pos(position.line, q),
                                        Pos(position.line, endChar),
                                        QUOTE_STYLES[k])

\* ---------------------------------------------------------------- C18
MultiLineStyles == { k \in StyleIndexes : QUOTE_STYLES[k].multiLine }

\* C18: whatever the line terminator, the cursor offset findMultiLineString
\* compares with span offsets designates the cursor position in the full
\* text (positionAt gives the position back); hence a multi-line style
\* reports a span exactly when one of its spans holds the cursor, and the
\* cursor then lies between the reported start and end.
C18_CursorOffsetIsCursorPosition ==
    /\ positionAt(document,
                  CursorOffset(document, position.line, position.character))
         = position
    /\ call = "extractStringWithDetails" =>
        \A k \in MultiLineStyles : \A r \in { StyleResult(k) } :
            /\ ~r.isNull <=>
                  \E sp \in SpansOf(k) :
                      sp.start <= TrueOffset(position)
                          /\ TrueOffset(position) < sp.end
            /\ ~r.isNull =>
                  ~PosBefore(position, r.start) /\ PosBefore(position, r.end)

\* ---------------------------------------------------------------- C12
\* The value of a run of hex digits, most significant first.
HexValue(digits) ==
    LET n == Len(digits)
        Power16(k) == IF k = 0 THEN 1 ELSE IF k = 1 THEN 16
                      ELSE IF k = 2 THEN 256 ELSE 4096
        RECURSIVE Sum(_)
        Sum(j) == IF j > n THEN 0
                  ELSE HexDigitValue(digits[j]) * Power16(n - j) + Sum(j + 1)
    IN  Sum(1)

AllHex(digits) == \A j \in 1..Len(digits) : IsHexDigit(digits[j])

\* The simple escapes and the character each stands for.
SimpleLiteral ==
    [c \in { CharCode["n"], CharCode["r"], CharCode["t"], CharCode["b"],
             CharCode["f"], CharCode["v"], CharCode[BS], CharCode[DQ],
             CharCode[SQ], CharCode["0"] } |->
        CASE c = CharCode["n"] -> 10 [] c = CharCode["r"] -> 13
          [] c = CharCode["t"] -> 9  [] c = CharCode["b"] -> 8
          [] c = CharCode["f"] -> 12 [] c = CharCode["v"] -> 11
          [] c = CharCode["0"] -> 0  [] OTHER -> c]

\* A recognized token: \u and exactly 4 hex digits, \x and exactly 2, or a
\* backslash and a simple escape character.
IsToken(seg) ==
    /\ Len(seg) >= 2
    /\ seg[1] = CharCode[BS]
    /\ \/ Len(seg) = 6 /\ seg[2] = CharCode["u"] /\ AllHex(SubSeq(seg, 3, 6))
       \/ Len(seg) = 4 /\ seg[2] = CharCode["x"] /\ AllHex(SubSeq(seg, 3, 4))
       \/ Len(seg) = 2 /\ seg[2] \in DOMAIN SimpleLiteral

\* The single character a token stands for.
Literal(seg) ==
    IF Len(seg) = 2 THEN SimpleLiteral[seg[2]]
    ELSE HexValue(SubSeq(seg, 3, Len(seg)))

\* The lengths of the tokens that start a text.
TokenLengths(t) == { n \in {2, 4, 6} : n <= Len(t) /\ IsToken(SubSeq(t, 1, n)) }

\* One pass from left to right: a token gives its character and the pass
\* resumes after it, any other character is copied.
RECURSIVE OnePass(_)
OnePass(t) ==
    IF t = <<>> THEN <<>>
    ELSE IF TokenLengths(t) # {}
    THEN LET n == CHOOSE n \in TokenLengths(t) : TRUE
         IN  <<Literal(SubSeq(t, 1, n))>> \o OnePass(SubSeq(t, n + 1, Len(t)))
    ELSE <<Head(t)>> \o OnePass(Tail(t))

HasToken(t) == \E i \in 1..Len(t) : TokenLengths(SubSeq(t, i, Len(t))) # {}

RECURSIVE PassTokens(_)
PassTokens(t) ==
    IF t = <<>> THEN <<>>
    ELSE IF TokenLengths(t) # {}
    THEN LET n == CHOOSE n \in TokenLengths(t) : TRUE
         IN  <<SubSeq(t, 1, n)>> \o PassTokens(SubSeq(t, n + 1, Len(t)))
    ELSE PassTokens(Tail(t))

\* The key a token is counted under: \u, \x, or the backslash and the
\* character of a simple escape.
KeyOf(token) == IF Len(token) = 2 THEN token ELSE SubSeq(token, 1, 2)

CountOf(tokens, key) ==
    Cardinality({ j \in 1..Len(tokens) : KeyOf(tokens[j]) = key })

RECURSIVE SumOver(_, _)
SumOver(f, keys) ==
    IF keys = {} THEN 0
    ELSE LET k == CHOOSE k \in keys : TRUE
         IN  f[k] + SumOver(f, keys \ {k})

\* C13: countEscapeSequences(text).total is the number of tokens unescape
\* replaces in the text, which is the number of tokens one pass from left
\* to right meets; total is the sum of the values of breakdown; breakdown
\* has a key exactly for the kinds of token present, \u for every \uXXXX,
\* \x for every \xXX, the backslash and the character for every simple
\* escape, and the value of a key is the number of its tokens.
C13_CountMatchesUnescape ==
    call = "countEscapeSequences" =>
        \A tokens \in { PassTokens(escaped) } :
            /\ ret.total = Len(MatchesFrom(unescapeRegex, escaped, 0))
            /\ ret.total = Len(tokens)
            /\ ret.total = SumOver(ret.breakdown, DOMAIN ret.breakdown)
            /\ DOMAIN ret.breakdown = { KeyOf(tokens[j]) : j \in 1..Len(tokens) }
            /\ \A key \in DOMAIN ret.breakdown :
                   /\ Len(key) = 2
                   /\ ret.breakdown[key] = CountOf(tokens, key)
            /\ Len(unescape(escaped)) + SumOver([j \in 1..Len(tokens) |->
                                                    Len(tokens[j]) - 1],
                                                1..Len(tokens))
                   = Len(escaped)

\* countEscapeSequences has counted two tokens of one kind, and tokens of
\* two kinds, next to a malformed sequence it leaves out.
C13_Witness ==
    /\ call = "countEscapeSequences"
    /\ \/ escaped = Codes(<<BS, "n", BS, "n">>) /\ ret.total = 2
            /\ ret.breakdown[Codes(<<BS, "n">>)] = 2
       \/ escaped = Codes(<<BS, "x", "4", "1", BS, "0">>) /\ ret.total = 2
       \/ escaped = Codes(<<BS, "x", "g", BS, "n">>) /\ ret.total = 1
       \/ escaped = Codes(<<BS, "u", "f", "F", "0", "0">>) /\ ret.total = 1
            /\ DOMAIN ret.breakdown = { Codes(<<BS, "u">>) }

\* ---------------------------------------------------------------- C14
NoTextMessage == "No text selected or found at cursor position"

\* The text to process of an invocation is absent or empty.
NoText(inv) == inv.text.isNull \/ inv.text.content = <<>>

\* The unescaped text of an invocation of unescape.previewJson does not
\* parse as JSON.
InvalidJson(inv) ==
    /\ inv.command = "unescape.previewJson"
    /\ ~NoText(inv)
    /\ ~JsonParses(unescape(inv.text.content))

Previewing(inv) == { i \in DOMAIN inv : inv[i].path # <<>> }

\* C19: in every step of every interleaving of the invocations,
\* previewCounter does not decrease, an entry of contentMap is neither
\* removed nor overwritten, the path of an invocation that has reached
\* showPreview does not change and differs from the path of every other
\* invocation, provideTextDocumentContent for that path gives the content
\* the invocation produced, and a document the host has opened for it holds
\* that content.
C19_PathsAreNeverShared ==
    [][/\ previewCounter' >= previewCounter
       /\ \A path \in DOMAIN contentMap :
              path \in DOMAIN contentMap' /\ contentMap'[path] = contentMap[path]
       /\ \A i \in Previewing(invocation) :
              /\ invocation'[i].path = invocation[i].path
              /\ invocation'[i].content = invocation[i].content
       /\ \A i \in Previewing(invocation') :
              /\ \A j \in Previewing(invocation') \ {i} :
                     invocation'[j].path # invocation'[i].path
              /\ provideTextDocumentContent(invocation[i].path)'
                     = invocation'[i].content
              /\ invocation'[i].path \in DOMAIN openDocuments' =>
                     openDocuments'[invocation'[i].path] = invocation'[i].content
       /\ DOMAIN contentMap' = { invocation'[i].path : i \in Previewing(invocation') }
       /\ previewCounter' = Cardinality(Previewing(invocation'))
      ]_vars

\* Two invocations are suspended at once, the one that started second being
\* further on; their paths have the same extension and their contents
\* differ, and the host has opened both documents.
C19_Witness ==
    \E i, j \in Invocations :
        /\ invocation[i].path = PreviewPath(1, Extension("json"))
        /\ invocation[j].path = PreviewPath(2, Extension("json"))
        /\ invocation[i].pc = "setTextDocumentLanguage"
        /\ invocation[j].pc = "showTextDocument"
        /\ invocation[i].content # invocation[j].content
        /\ openDocuments[invocation[i].path] = invocation[i].content
        /\ openDocuments[invocation[j].path] = invocation[j].content
        /\ contentMap[invocation[i].path] = invocation[i].content

====
